---- MODULE Spec2Model ----
(***************************************************************************)
(* Generic NgRx helpers of public/assets: action groups, reducers built    *)
(* from them, and the effect pipelines (switchMap for load, exhaustMap     *)
(* for add / update / delete) that turn intent signals into outcome        *)
(* signals.  Four generations of the helpers live in the three files:      *)
(*   "improved"         ngrx_helper_improved.ts  (stateKey, split flags)    *)
(*   "state4"           ngrx_generic_state_4.ts  (stateKey, one isLoading)  *)
(*   "enhancedHandlers" ngrx_helper_enhanced.ts  lines 1-412                *)
(*   "enhancedGeneric"  ngrx_helper_enhanced.ts  lines 413-756 (flat state) *)
(***************************************************************************)
EXTENDS Naturals, Sequences, FiniteSets, TLC

VARIABLES
  cfg,       \* what the factories were called with (fixed after Init)
  state,     \* the feature state held by the store
  nreq,      \* number of service calls made so far
  loadLive,  \* id of the load request the switchMap is subscribed to, 0 if none
  stale,     \* ids of load requests the switchMap unsubscribed from, not yet settled
  pending,   \* add/update/delete: the request the exhaustMap is subscribed to
  resetHit,  \* requests in flight when a reset was reduced (their outcome is late)
  held,      \* per kind in flight: the data the sub-slice held before its intent
  obj,       \* which object the state is, and whether the last step kept the object
  last       \* the step just taken: signal reduced, service call made, what settled

vars == <<cfg, state, nreq, loadLive, stale, pending, resetHit, held, obj, last>>

(***************************************************************************)
(* Bounds and input sets                                                   *)
(***************************************************************************)
MaxRequests == 2

Kinds == {"load", "add", "update", "delete"}
Mutating == {"add", "update", "delete"}
Variants == {"improved", "state4", "enhancedHandlers", "enhancedGeneric"}
Keyed == {"improved", "state4", "enhancedHandlers"}
SplitFlags == {"improved", "enhancedHandlers"}
\* the composite states that are given a page-number handler of their own
Paged == {"improved", "state4"}

\* JavaScript null and undefined
Null == "null"
Undefined == "undefined"
NullData == [tag |-> "null"]
Arr(s) == [tag |-> "array", items |-> s]

Ids == {"a", "b"}
Item(i, v) == [id |-> i, v |-> v]
Params == {"p1", "p2"}
Payloads == {"q1", "q2"}
ForceReloadValues == {"absent", "false", "true"}
LoadValues == {Arr(<<>>), Arr(<<Item("a", 0), Item("b", 0)>>)}
AddResults == {Item(i, 0) : i \in Ids}
UpdateResults == {Item(i, 1) : i \in Ids}
\* what a service rejects with: an Error with a message, an object without
\* one, or null
NullRejection == [tag |-> "null"]
Rejections == {[message |-> "X"], [message |-> Undefined], NullRejection}
Pages == {2}
DefaultDatas == {NullData, Arr(<<>>)}
EnabledSets == {{"load"}, Kinds}
Selectors == {"none", "slice", "missing"}

stateKey == "products"

\* { ...a, ...b }
Spread(a, b) ==
  [k \in DOMAIN a \cup DOMAIN b |-> IF k \in DOMAIN b THEN b[k] ELSE a[k]]

EmptyObject == [k \in {} |-> Null]

\* JavaScript truthiness of a data value: null is falsy, every array is truthy
Truthy(d) == d # NullData

(***************************************************************************)
(* State constructors                                                      *)
(***************************************************************************)
\* faulty variant: the default the caller passes is not stored
createDefaultStateDropsDefault(data) ==
  [data |-> NullData, error |-> Null, isLoading |-> FALSE, isAdding |-> FALSE,
   isUpdating |-> FALSE, isDeleting |-> FALSE]

createDefaultState(data) ==
  [data |-> data, error |-> Null, isLoading |-> FALSE, isAdding |-> FALSE,
   isUpdating |-> FALSE, isDeleting |-> FALSE]

createAsyncState(data) ==
  [data |-> data, isLoading |-> FALSE, error |-> Null]

initialGenericState ==
  [data |-> NullData, isLoading |-> FALSE, error |-> Null]

(***************************************************************************)
(* Action groups: the set of signal constructors a group holds             *)
(***************************************************************************)
Success(k) == k \o "Success"
Failure(k) == k \o "Failure"
KindActions(k) == {k, Success(k), Failure(k)}
SignalTypes == UNION {KindActions(k) : k \in Kinds} \cup {"reset"}

createCrudActions(enabled) ==
  UNION {KindActions(k) : k \in enabled} \cup {"reset"}

\* an optional boolean field of GenericActionConfig
FlagValues == {"absent", "true", "false"}
Features == {"Product", "User"}
GenericActionConfigs ==
  [feature : Features, enableLoad : FlagValues, enableAdd : FlagValues,
   enableUpdate : FlagValues, enableDelete : FlagValues]

\* const { enableLoad = true, enableAdd = false, ... } = config
Destructure(flag, default) == IF flag = "absent" THEN default ELSE flag = "true"

\* the words a constructor's type string ends with
TypeWords(key) ==
  CASE key = "load" -> "Load"
    [] key = "loadSuccess" -> "Load Success"
    [] key = "loadFailure" -> "Load Failure"
    [] key = "add" -> "Add"
    [] key = "addSuccess" -> "Add Success"
    [] key = "addFailure" -> "Add Failure"
    [] key = "update" -> "Update"
    [] key = "updateSuccess" -> "Update Success"
    [] key = "updateFailure" -> "Update Failure"
    [] key = "delete" -> "Delete"
    [] key = "deleteSuccess" -> "Delete Success"
    [] key = "deleteFailure" -> "Delete Failure"
    [] key = "reset" -> "Reset"

\* faulty variant: the type strings leave out the feature name
createGenericActionsUnscoped(config) ==
  LET on == [load |-> Destructure(config.enableLoad, TRUE),
             add |-> Destructure(config.enableAdd, FALSE),
             update |-> Destructure(config.enableUpdate, FALSE),
             delete |-> Destructure(config.enableDelete, FALSE)]
      keys == UNION {KindActions(k) : k \in {j \in Kinds : on[j]}} \cup {"reset"}
  IN [key \in keys |-> TypeWords(key)]

\* createGenericActions: constructor name |-> the type string of its signals
createGenericActions(config) ==
  LET on == [load |-> Destructure(config.enableLoad, TRUE),
             add |-> Destructure(config.enableAdd, FALSE),
             update |-> Destructure(config.enableUpdate, FALSE),
             delete |-> Destructure(config.enableDelete, FALSE)]
      keys == UNION {KindActions(k) : k \in {j \in Kinds : on[j]}} \cup {"reset"}
  IN [key \in keys |-> "[" \o config.feature \o "] " \o TypeWords(key)]

(***************************************************************************)
(* Success-merge callbacks, as the usage examples write them               *)
(***************************************************************************)
Append1(d, item) == IF Truthy(d) THEN Arr(Append(d.items, item)) ELSE Arr(<<item>>)

\* faulty variant: the matching element is removed and the item appended
ReplaceByIdMovesToEnd(d, item) ==
  IF Truthy(d)
    THEN Arr(Append(SelectSeq(d.items, LAMBDA p : p.id # item.id), item))
    ELSE d

ReplaceById(d, item) ==
  IF Truthy(d)
    THEN Arr([i \in 1..Len(d.items) |->
               IF d.items[i].id = item.id THEN item ELSE d.items[i]])
    ELSE d

FilterById(d, id) ==
  IF Truthy(d) THEN Arr(SelectSeq(d.items, LAMBDA p : p.id # id)) ELSE d

\* stateKey reducers: the callback returns { products: { ...state.products, data } }
onAddSuccessKeyed(s, item) ==
  stateKey :> Spread(s[stateKey], [data |-> Append1(s[stateKey].data, item)])

onUpdateSuccessKeyed(s, item) ==
  stateKey :> Spread(s[stateKey], [data |-> ReplaceById(s[stateKey].data, item)])

onDeleteSuccessKeyed(s, id) ==
  stateKey :> Spread(s[stateKey], [data |-> FilterById(s[stateKey].data, id)])

\* flat reducer: the callback returns { data }
onAddSuccessFlat(s, item) == [data |-> Append1(s.data, item)]

onUpdateSuccessFlat(s, item) == [data |-> ReplaceById(s.data, item)]

onDeleteSuccessFlat(s, id) == [data |-> FilterById(s.data, id)]

(***************************************************************************)
(* Reducers.  c is the factory's config, s the state, sig the signal.      *)
(***************************************************************************)
\* ngrx_helper_improved.ts: a kind is handled when its three constructors exist
ImprovedHandlers(c, s, sig) ==
  LET actions == c.actions
      currentState == s[stateKey]
      Has(k) == KindActions(k) \subseteq actions
      Sub(patch) == Spread(s, stateKey :> Spread(currentState, patch))
      Merge(on, patch) == IF on THEN patch ELSE EmptyObject
  IN CASE sig.type = "load" /\ Has("load") ->
            Sub([isLoading |-> TRUE, error |-> Null])
       [] sig.type = "loadSuccess" /\ Has("load") ->
            Sub([data |-> sig.data, isLoading |-> FALSE, error |-> Null])
       [] sig.type = "loadFailure" /\ Has("load") ->
            Sub([isLoading |-> FALSE, error |-> sig.error])
       [] sig.type = "add" /\ Has("add") ->
            Sub([isAdding |-> TRUE, error |-> Null])
       [] sig.type = "addSuccess" /\ Has("add") ->
            Spread(Sub([isAdding |-> FALSE, error |-> Null]),
                   Merge(c.callbacks, onAddSuccessKeyed(s, sig.item)))
       [] sig.type = "addFailure" /\ Has("add") ->
            Sub([isAdding |-> FALSE, error |-> sig.error])
       [] sig.type = "update" /\ Has("update") ->
            Sub([isUpdating |-> TRUE, error |-> Null])
       [] sig.type = "updateSuccess" /\ Has("update") ->
            Spread(Sub([isUpdating |-> FALSE, error |-> Null]),
                   Merge(c.callbacks, onUpdateSuccessKeyed(s, sig.item)))
       [] sig.type = "updateFailure" /\ Has("update") ->
            Sub([isUpdating |-> FALSE, error |-> sig.error])
       [] sig.type = "delete" /\ Has("delete") ->
            Sub([isDeleting |-> TRUE, error |-> Null])
       [] sig.type = "deleteSuccess" /\ Has("delete") ->
            Spread(Sub([isDeleting |-> FALSE, error |-> Null]),
                   Merge(c.callbacks, onDeleteSuccessKeyed(s, sig.id)))
       [] sig.type = "deleteFailure" /\ Has("delete") ->
            Sub([isDeleting |-> FALSE, error |-> sig.error])
       [] sig.type = "reset" /\ "reset" \in actions ->
            Spread(s, stateKey :> createDefaultState(NullData))
       [] OTHER -> s

\* ngrx_helper_enhanced.ts, createDefaultReducerHandlers
EnhancedHandlers(c, s, sig) ==
  LET actions == c.actions
      Has(k) == k \in actions
      Sub(patch) == Spread(s, stateKey :> Spread(s[stateKey], patch))
      Merge(on, patch) == IF on THEN patch ELSE EmptyObject
  IN CASE sig.type = "load" /\ Has("load") ->
            Sub([isLoading |-> TRUE, error |-> Null])
       [] sig.type = "loadSuccess" /\ Has("load") ->
            Sub([data |-> sig.data, isLoading |-> FALSE, error |-> Null])
       [] sig.type = "loadFailure" /\ Has("load") ->
            Sub([isLoading |-> FALSE, error |-> sig.error])
       [] sig.type = "add" /\ Has("add") ->
            Sub([isAdding |-> TRUE, error |-> Null])
       [] sig.type = "addSuccess" /\ Has("add") ->
            Spread(Sub([isAdding |-> FALSE, error |-> Null]),
                   Merge(c.callbacks, onAddSuccessKeyed(s, sig.item)))
       [] sig.type = "addFailure" /\ Has("add") ->
            Sub([isAdding |-> FALSE, error |-> sig.error])
       [] sig.type = "update" /\ Has("update") ->
            Sub([isUpdating |-> TRUE, error |-> Null])
       [] sig.type = "updateSuccess" /\ Has("update") ->
            Spread(Sub([isUpdating |-> FALSE, error |-> Null]),
                   Merge(c.callbacks, onUpdateSuccessKeyed(s, sig.item)))
       [] sig.type = "updateFailure" /\ Has("update") ->
            Sub([isUpdating |-> FALSE, error |-> sig.error])
       [] sig.type = "delete" /\ Has("delete") ->
            Sub([isDeleting |-> TRUE, error |-> Null])
       [] sig.type = "deleteSuccess" /\ Has("delete") ->
            Spread(Sub([isDeleting |-> FALSE, error |-> Null]),
                   Merge(c.callbacks, onDeleteSuccessKeyed(s, sig.id)))
       [] sig.type = "deleteFailure" /\ Has("delete") ->
            Sub([isDeleting |-> FALSE, error |-> sig.error])
       [] sig.type = "reset" /\ "reset" \in actions ->
            Spread(s, stateKey :> Spread(createDefaultState(NullData), EmptyObject))
       [] OTHER -> s

\* ngrx_generic_state_4.ts, createGenericReducer: every kind shares isLoading
GenericReducer4(c, s, sig) ==
  LET actions == c.actions
      Has(k) == k \in actions
      Sub(patch) == Spread(s, stateKey :> Spread(s[stateKey], patch))
      Merge(on, patch) == IF on THEN patch ELSE EmptyObject
  IN CASE sig.type = "load" /\ Has("load") ->
            Sub([isLoading |-> TRUE, error |-> Null])
       [] sig.type = "loadSuccess" /\ Has("load") ->
            Spread(s, stateKey :>
                     [data |-> sig.data, isLoading |-> FALSE, error |-> Null])
       [] sig.type = "loadFailure" /\ Has("load") ->
            Sub([isLoading |-> FALSE, error |-> sig.error])
       [] sig.type = "add" /\ Has("add") ->
            Sub([isLoading |-> TRUE, error |-> Null])
       [] sig.type = "addSuccess" /\ Has("add") ->
            Spread(Sub([isLoading |-> FALSE, error |-> Null]),
                   Merge(c.callbacks, onAddSuccessKeyed(s, sig.item)))
       [] sig.type = "addFailure" /\ Has("add") ->
            Sub([isLoading |-> FALSE, error |-> sig.error])
       [] sig.type = "update" /\ Has("update") ->
            Sub([isLoading |-> TRUE, error |-> Null])
       [] sig.type = "updateSuccess" /\ Has("update") ->
            Spread(Sub([isLoading |-> FALSE, error |-> Null]),
                   Merge(c.callbacks, onUpdateSuccessKeyed(s, sig.item)))
       [] sig.type = "updateFailure" /\ Has("update") ->
            Sub([isLoading |-> FALSE, error |-> sig.error])
       [] sig.type = "delete" /\ Has("delete") ->
            Sub([isLoading |-> TRUE, error |-> Null])
       [] sig.type = "deleteSuccess" /\ Has("delete") ->
            Spread(Sub([isLoading |-> FALSE, error |-> Null]),
                   Merge(c.callbacks, onDeleteSuccessKeyed(s, sig.id)))
       [] sig.type = "deleteFailure" /\ Has("delete") ->
            Sub([isLoading |-> FALSE, error |-> sig.error])
       [] sig.type = "reset" /\ "reset" \in actions -> c.initialState
       [] OTHER -> s

\* ngrx_helper_enhanced.ts, createGenericReducer: the state is the resource itself
GenericReducerFlat(c, s, sig) ==
  LET actions == c.actions
      Has(k) == k \in actions
      Merge(on, patch) == IF on THEN patch ELSE EmptyObject
  IN CASE sig.type = "load" /\ Has("load") ->
            Spread(s, [isLoading |-> TRUE, error |-> Null])
       [] sig.type = "loadSuccess" /\ Has("load") ->
            Spread(s, [data |-> sig.data, isLoading |-> FALSE, error |-> Null])
       [] sig.type = "loadFailure" /\ Has("load") ->
            Spread(s, [isLoading |-> FALSE, error |-> sig.error])
       [] sig.type = "add" /\ Has("add") ->
            Spread(s, [isLoading |-> TRUE, error |-> Null])
       [] sig.type = "addSuccess" /\ Has("add") ->
            Spread(Spread(s, [isLoading |-> FALSE, error |-> Null]),
                   Merge(c.callbacks, onAddSuccessFlat(s, sig.item)))
       [] sig.type = "addFailure" /\ Has("add") ->
            Spread(s, [isLoading |-> FALSE, error |-> sig.error])
       [] sig.type = "update" /\ Has("update") ->
            Spread(s, [isLoading |-> TRUE, error |-> Null])
       [] sig.type = "updateSuccess" /\ Has("update") ->
            Spread(Spread(s, [isLoading |-> FALSE, error |-> Null]),
                   Merge(c.callbacks, onUpdateSuccessFlat(s, sig.item)))
       [] sig.type = "updateFailure" /\ Has("update") ->
            Spread(s, [isLoading |-> FALSE, error |-> sig.error])
       [] sig.type = "delete" /\ Has("delete") ->
            Spread(s, [isLoading |-> TRUE, error |-> Null])
       [] sig.type = "deleteSuccess" /\ Has("delete") ->
            Spread(Spread(s, [isLoading |-> FALSE, error |-> Null]),
                   Merge(c.callbacks, onDeleteSuccessFlat(s, sig.id)))
       [] sig.type = "deleteFailure" /\ Has("delete") ->
            Spread(s, [isLoading |-> FALSE, error |-> sig.error])
       [] sig.type = "reset" /\ "reset" \in actions -> c.initialState
       [] OTHER -> s

\* the resource's sub-slice of a feature state
Slice(c, s) == IF c.variant \in Keyed THEN s[stateKey] ELSE s

\* the busy flag a variant uses for an operation kind
BusyFlag(c, k) ==
  IF c.variant \in SplitFlags
    THEN CASE k = "load" -> "isLoading"
           [] k = "add" -> "isAdding"
           [] k = "update" -> "isUpdating"
           [] k = "delete" -> "isDeleting"
    ELSE "isLoading"

\* the handler list of the variant in use, applied to a signal
Handlers(c, s, sig) ==
  CASE c.variant = "improved" -> ImprovedHandlers(c, s, sig)
    [] c.variant = "enhancedHandlers" -> EnhancedHandlers(c, s, sig)
    [] c.variant = "state4" -> GenericReducer4(c, s, sig)
    [] c.variant = "enhancedGeneric" -> GenericReducerFlat(c, s, sig)

\* faulty variant: the intent handlers forget error: null
ReduceIntentKeepsError(c, s, sig) ==
  LET r == Handlers(c, s, sig)
      keep == [error |-> Slice(c, s).error]
  IN IF sig.type \notin Kinds THEN r
     ELSE IF c.variant \in Keyed
            THEN Spread(r, stateKey :> Spread(r[stateKey], keep))
            ELSE Spread(r, keep)

\* faulty variant: an intent of another kind than load, and a reset, keep error
ReduceOnlyLoadClearsError(c, s, sig) ==
  LET r == Handlers(c, s, sig)
      keep == [error |-> Slice(c, s).error]
  IN IF sig.type \notin (Mutating \cup {"reset"}) THEN r
     ELSE IF c.variant \in Keyed
            THEN Spread(r, stateKey :> Spread(r[stateKey], keep))
            ELSE Spread(r, keep)

\* faulty variant: the usage's merge callbacks are built in
ReduceSuccessAlwaysMerges(c, s, sig) ==
  Handlers([c EXCEPT !.callbacks = TRUE], s, sig)

\* whether the handler list holds a handler for the signal
Handles(c, sig) ==
  IF c.variant = "improved"
    THEN \/ sig.type = "reset" /\ "reset" \in c.actions
         \/ \E k \in Kinds : sig.type \in KindActions(k)
                               /\ KindActions(k) \subseteq c.actions
    ELSE sig.type \in c.actions

\* faulty variant: the handlers write into the object they are given
ReturnedObjectInPlace(c, o, sig) == [ref |-> o.ref, same |-> TRUE]

\* the object the reducer returns for state object o: o itself when no handler
\* matches, the initialState object for the reset handlers that return it,
\* and otherwise the fresh object an object literal with spreads builds
ReturnedObject(c, o, sig) ==
  IF ~Handles(c, sig) THEN [ref |-> o.ref, same |-> TRUE]
  ELSE IF sig.type = "reset" /\ c.variant \in {"state4", "enhancedGeneric"}
         THEN [ref |-> "initialState", same |-> o.ref = "initialState"]
         ELSE [ref |-> "fresh", same |-> FALSE]

\* faulty variant: the handlers of every kind are installed whatever the group holds
ReduceIgnoresGroup(c, s, sig) ==
  Handlers([c EXCEPT !.actions = createCrudActions(Kinds)], s, sig)

\* faulty variant: loadSuccess clears the flag but stores no data
ReduceLoadSuccessDropsData(c, s, sig) ==
  IF sig.type = "loadSuccess"
    THEN Handlers(c, s, [sig EXCEPT !.data = NullData])
    ELSE Handlers(c, s, sig)

\* createReducer(initialState, ...handlers): the reducer the store runs
Reduce(c, s, sig) == Handlers(c, s, sig)

(***************************************************************************)
(* Selectors.  g is the global state: feature name |-> feature state.      *)
(***************************************************************************)
featureName == "app"

\* createFeatureSelector(featureName)
selectFeature(g) == g[featureName]

\* ngrx_generic_state_4.ts: state[stateKey]; ngrx_helper_enhanced.ts projects
\* the feature state itself
selectAsyncState(c, g) ==
  IF c.variant \in Keyed THEN selectFeature(g)[stateKey] ELSE selectFeature(g)

\* faulty variant: data is read from the first resource of the composite state
selectDataOfUsers(c, g) ==
  IF c.variant \in Keyed THEN selectFeature(g)["users"].data
                          ELSE selectFeature(g).data

selectData(c, g) == selectAsyncState(c, g).data

selectIsLoading(c, g) == selectAsyncState(c, g).isLoading

selectError(c, g) == selectAsyncState(c, g).error

(***************************************************************************)
(* Effect helpers                                                          *)
(***************************************************************************)
\* a message option: not given, a string, or a function of the data
NoMessage == [kind |-> "undefined"]
Static(text) == [kind |-> "static", text |-> text]
Function == [kind |-> "function"]
MessageChoices == {"none", "static", "function"}

\* the options an effect factory is given for a choice; the enhanced helpers'
\* EffectMessageConfig takes strings only, the other two files take no messages
MessageConfig(variant, choice) ==
  CASE variant = "improved" /\ choice = "static" ->
         [successMessage |-> Static("S"), errorMessage |-> Static("E"),
          failureMessage |-> NoMessage]
    [] variant = "improved" /\ choice = "function" ->
         [successMessage |-> Function, errorMessage |-> Function,
          failureMessage |-> NoMessage]
    [] variant = "enhancedHandlers" /\ choice = "static" ->
         [successMessage |-> Static("S"), errorMessage |-> NoMessage,
          failureMessage |-> Static("F")]
    [] OTHER ->
         [successMessage |-> NoMessage, errorMessage |-> NoMessage,
          failureMessage |-> NoMessage]

\* a || b on strings
OrElse(a, b) == IF a \in {Undefined, Null, ""} THEN b ELSE a

\* the string value of a string-typed option
Text(message) == IF message.kind = "static" THEN message.text ELSE Undefined

\* error?.message
MessageOf(e) == IF e = NullRejection THEN Undefined ELSE e.message

\* the data a message function is applied to, as the text it shows of it
ShowError(e) == IF e = NullRejection THEN Null ELSE e.message
ShowData(d) == IF d = NullData THEN Null ELSE "array"
ShowResult(k, body) ==
  CASE k = "load" -> ShowData(body.data)
    [] k = "delete" -> body.id
    [] OTHER -> body.item.id

\* a caller-supplied (data) => string
MessageFn(data) == "fn(" \o data \o ")"

resolveMessage(message, data, defaultMessage) ==
  IF message.kind = "undefined" \/ (message.kind = "static" /\ message.text = "")
    THEN defaultMessage
    ELSE IF message.kind = "function" THEN MessageFn(data) ELSE message.text

FailedText(k) ==
  CASE k = "load" -> "Load failed"
    [] k = "add" -> "Add failed"
    [] k = "update" -> "Update failed"
    [] k = "delete" -> "Delete failed"

\* faulty variant: the rejection's own message is never used
FailureMessageAlwaysDefault(c, k, e) == FailedText(k)

\* the error string a failure signal of kind k carries when the service rejects with e
FailureMessage(c, k, e) ==
  CASE c.variant = "improved" ->
         resolveMessage(c.errorMessage, ShowError(e),
                        OrElse(MessageOf(e), FailedText(k)))
    [] c.variant = "enhancedHandlers" ->
         OrElse(e.message, OrElse(Text(c.failureMessage), FailedText(k)))
    [] OTHER -> OrElse(e.message, FailedText(k))

\* error.message on null: the catchError callback itself throws a TypeError
CatchThrows(c, e) == c.variant # "improved" /\ e = NullRejection

SuccessText(k) ==
  CASE k = "load" -> "Data loaded successfully"
    [] k = "add" -> "Item added successfully"
    [] k = "update" -> "Item updated successfully"
    [] k = "delete" -> "Item deleted successfully"

\* the success signal an effect builds from the service's result
SuccessSignal(c, k, body) ==
  IF c.variant = "enhancedHandlers"
    THEN Spread([type |-> k \o "Success",
                 message |-> OrElse(Text(c.successMessage), SuccessText(k))],
                body)
    ELSE Spread([type |-> k \o "Success"], body)

SuccessfulText(k) ==
  CASE k = "load" -> "Load successful"
    [] k = "add" -> "Add successful"
    [] k = "update" -> "Update successful"
    [] k = "delete" -> "Delete successful"

\* what the improved effects print with console.log on success
SuccessLog(c, k, body) ==
  IF c.variant = "improved" /\ c.successMessage # NoMessage
       /\ c.successMessage # Static("")
    THEN resolveMessage(c.successMessage, ShowResult(k, body), SuccessfulText(k))
    ELSE Undefined

FailureSignal(c, k, e) ==
  [type |-> k \o "Failure", error |-> FailureMessage(c, k, e)]

\* what store.select(selector) last emitted, as the load effect reads it
UndefinedData == [tag |-> "undefined"]

SelectedData(c, s) ==
  IF c.selector = "slice" THEN s[stateKey].data ELSE UndefinedData

\* faulty variant: the data check is lost, every load intent reaches the service
LoadNeverSkipped(c, s, forceReload) == FALSE

\* faulty variant: forceReload is not consulted
LoadSkippedIgnoringForce(c, s, forceReload) ==
  /\ c.selector # "none"
  /\ SelectedData(c, s) # NullData

\* faulty variant: the data check also runs when no store or selector was given
LoadSkippedWithoutStore(c, s, forceReload) ==
  /\ Slice(c, s).data # NullData
  /\ forceReload # "true"

\* createLoadEffect with store and selector: state?.data !== null && !forceReload
LoadSkipped(c, s, forceReload) ==
  /\ c.selector # "none"
  /\ SelectedData(c, s) # NullData
  /\ forceReload # "true"

\* faulty variant: the live inner observable is kept and the new one is the one dropped
switchMapKeepsFirst(live, staleSet, inner) ==
  IF live # 0
    THEN [live |-> live, stale |-> staleSet \cup ({inner} \ {0})]
    ELSE [live |-> inner, stale |-> staleSet]

\* faulty variant: the new inner observable is subscribed to without
\* unsubscribing from the one that was live (mergeMap)
switchMapKeepsBoth(live, staleSet, inner) ==
  [live |-> inner, stale |-> staleSet]

\* switchMap: subscribe to the new inner observable (0: EMPTY, which completes
\* at once) and unsubscribe from the one that was live
switchMap(live, staleSet, inner) ==
  [live |-> inner,
   stale |-> IF live # 0 THEN staleSet \cup {live} ELSE staleSet]

NoReq == "none"

\* faulty variant: every intent is projected, the live request is replaced
exhaustMapSwitches(cur, arg) == [cur |-> arg, subscribed |-> TRUE]

\* exhaustMap: an intent arriving while the inner observable is live is
\* ignored; otherwise the projection runs and its observable is subscribed to
exhaustMap(cur, arg) ==
  [cur |-> IF cur = NoReq THEN arg ELSE cur, subscribed |-> cur = NoReq]

\* faulty variant: add, update and delete signals run through one exhaustMap
ofTypeAnyMutating(p, k) ==
  IF \E j \in Mutating : p[j] # NoReq
    THEN p[CHOOSE j \in Mutating : p[j] # NoReq]
    ELSE NoReq

\* actions$.pipe(ofType(actions[k]), exhaustMap(...)): a pipeline sees the
\* intents of its own kind only, so its exhaustMap holds its own request
ofType(p, k) == p[k]

\* faulty variant: the exhaustMap stays busy after its request has settled
innerNeverCompletes(p, k) == p

\* the inner observable (the service call piped through map and catchError)
\* completes once it has emitted its outcome: the exhaustMap is idle again
innerCompletes(p, k) == [p EXCEPT ![k] = NoReq]

\* what a deleteService resolves with: nothing, or an id of its own choosing
DeleteResponses == {Undefined} \cup Ids

\* faulty variant: deleteSuccess carries what the service resolved with
deleteSuccessIdOfResponse(id, response) == response

\* map(() => actions.deleteSuccess({ id })): the id is the one destructured
\* from the intent the exhaustMap projected; the response is not looked at
deleteSuccessId(id, response) == id

InFlight(k) == IF k = "load" THEN loadLive # 0 ELSE pending[k] # NoReq

NoCall == [kind |-> "none", args |-> <<>>]
NoValue == [tag |-> "none"]

\* the data before the intent is no longer what the sub-slice holds
Overwritten == [tag |-> "overwritten"]

\* what is remembered of the data each request in flight found: a request
\* that starts finds the data before its intent, one that ends is forgotten,
\* and a signal that changes data in the meantime is noted
HeldAfter(h, before, after, starts, ends) ==
  [j \in Kinds |->
     IF j \in starts THEN before
     ELSE IF j \in ends THEN NoValue
     ELSE IF h[j] # NoValue /\ after # before THEN Overwritten
     ELSE h[j]]

\* the record of a step: the signal reduced, the service call made, the load
\* request concerned, whether a reset came in between, what the service
\* settled with, what was printed, and the error the sub-slice held before
Step(type, sig, call, req, late, settled, log, was) ==
  [type |-> type, sig |-> sig, call |-> call, req |-> req, late |-> late,
   settled |-> settled, log |-> log, was |-> was]

Quiet(type, sig, call, req) ==
  Step(type, sig, call, req, FALSE, NoValue, Undefined, Null)

\* an intent or a reset: the step remembers the error it found
Intent(type, sig, call, req) ==
  Step(type, sig, call, req, FALSE, NoValue, Undefined,
       Slice(cfg, state).error)

(***************************************************************************)
(* Initial state                                                           *)
(***************************************************************************)
InitialState(variant, d) ==
  CASE variant \in SplitFlags ->
         [users |-> createDefaultState(Arr(<<>>)),
          products |-> createDefaultState(d), currentPageNumber |-> 1]
    [] variant = "state4" ->
         [users |-> createAsyncState(Arr(<<>>)),
          products |-> createAsyncState(d), currentPageNumber |-> 1]
    [] variant = "enhancedGeneric" -> Spread(initialGenericState, [data |-> d])

Configs ==
  {Spread([variant |-> v, actions |-> createCrudActions(en), callbacks |-> cb,
           selector |-> sel, initialState |-> InitialState(v, d),
           defaultData |-> d, messages |-> m],
          MessageConfig(v, m)) :
     v \in Variants, en \in EnabledSets, cb \in BOOLEAN, d \in DefaultDatas,
     sel \in Selectors, m \in MessageChoices}

Init ==
  /\ cfg \in Configs
  \* only createLoadEffect of ngrx_helper_enhanced.ts takes a store and a selector
  /\ cfg.selector # "none" => cfg.variant = "enhancedHandlers"
  /\ cfg.selector = "missing" => cfg.actions \cap Mutating = {}
  /\ cfg.callbacks => cfg.actions \cap Mutating # {}
  /\ cfg.selector # "none" => ~cfg.callbacks
  /\ cfg.messages = "function" => cfg.variant = "improved"
  /\ cfg.messages = "static" => cfg.variant \in {"improved", "enhancedHandlers"}
  /\ cfg.messages # "none" => (cfg.selector = "none" /\ ~cfg.callbacks)
  /\ state = cfg.initialState
  /\ nreq = 0
  /\ loadLive = 0
  /\ stale = {}
  /\ pending = [k \in Mutating |-> NoReq]
  /\ resetHit = [k \in Kinds |-> FALSE]
  /\ held = [k \in Kinds |-> NoValue]
  /\ obj = [ref |-> "initialState", same |-> TRUE]
  /\ last = Quiet("init", [type |-> "init"], NoCall, 0)

(***************************************************************************)
(* Intents: the store reduces the signal, then the effect sees it          *)
(***************************************************************************)
Load(params, forceReload) ==
  /\ "load" \in cfg.actions
  /\ forceReload # "absent" => cfg.variant = "enhancedHandlers"
  /\ LET sig == IF forceReload = "absent"
                  THEN [type |-> "load", params |-> params]
                  ELSE [type |-> "load", params |-> params,
                        forceReload |-> forceReload]
         s1 == Reduce(cfg, state, sig)
         skip == LoadSkipped(cfg, s1, forceReload)
         sw == switchMap(loadLive, stale, IF skip THEN 0 ELSE nreq + 1)
     IN /\ skip \/ nreq < MaxRequests
        /\ state' = s1
        /\ obj' = ReturnedObject(cfg, obj, sig)
        /\ nreq' = IF skip THEN nreq ELSE nreq + 1
        /\ loadLive' = sw.live
        /\ stale' = sw.stale
        /\ resetHit' = [resetHit EXCEPT !["load"] = FALSE]
        /\ held' = HeldAfter(held, Slice(cfg, state).data, Slice(cfg, s1).data,
                             IF skip THEN {} ELSE {"load"}, {"load"})
        /\ last' = Intent("load", sig,
                          IF skip THEN NoCall
                                  ELSE [kind |-> "load", args |-> <<params>>],
                          sw.live)
  /\ UNCHANGED <<cfg, pending>>

\* add, update, delete: sig is the intent, arg what the request remembers
Exhaust(k, sig, arg, args) ==
  LET ex == exhaustMap(ofType(pending, k), arg)
  IN /\ k \in cfg.actions
     /\ ~ex.subscribed \/ nreq < MaxRequests
     /\ state' = Reduce(cfg, state, sig)
     /\ obj' = ReturnedObject(cfg, obj, sig)
     /\ pending' = [pending EXCEPT ![k] = ex.cur]
     /\ nreq' = IF ex.subscribed THEN nreq + 1 ELSE nreq
     /\ resetHit' = IF ex.subscribed THEN [resetHit EXCEPT ![k] = FALSE]
                                     ELSE resetHit
     /\ held' = HeldAfter(held, Slice(cfg, state).data, Slice(cfg, state').data,
                          IF ex.subscribed THEN {k} ELSE {}, {})
     /\ last' = Intent(k, sig,
                       IF ex.subscribed THEN [kind |-> k, args |-> args]
                                        ELSE NoCall,
                       0)
     /\ UNCHANGED <<cfg, loadLive, stale>>

Add(payload) ==
  Exhaust("add", [type |-> "add", payload |-> payload], payload, <<payload>>)

Update(id, payload) ==
  Exhaust("update", [type |-> "update", id |-> id, payload |-> payload], id,
          <<id, payload>>)

Delete(id) ==
  Exhaust("delete", [type |-> "delete", id |-> id], id, <<id>>)

Reset ==
  /\ "reset" \in cfg.actions
  /\ state' = Reduce(cfg, state, [type |-> "reset"])
  /\ obj' = ReturnedObject(cfg, obj, [type |-> "reset"])
  /\ resetHit' = [k \in Kinds |-> InFlight(k)]
  /\ held' = HeldAfter(held, Slice(cfg, state).data, Slice(cfg, state').data,
                       {}, {})
  /\ last' = Intent("reset", [type |-> "reset"], NoCall, 0)
  /\ UNCHANGED <<cfg, nreq, loadLive, stale, pending>>

\* a signal whose constructor the group does not hold (another feature's add,
\* addSuccess, ..., or a signal unrelated to the helpers) reaches the reducer;
\* no effect of this group listens to it
ForeignSignal(type) ==
  CASE type \in {"load", "add"} -> [type |-> type, payload |-> "q1", params |-> "p1"]
    [] type \in {"update", "delete"} -> [type |-> type, id |-> "a", payload |-> "q1"]
    [] type = "loadSuccess" -> [type |-> type, data |-> Arr(<<Item("b", 1)>>)]
    [] type \in {"addSuccess", "updateSuccess"} -> [type |-> type, item |-> Item("b", 1)]
    [] type = "deleteSuccess" -> [type |-> type, id |-> "a"]
    [] type \in {Failure(k) : k \in Kinds} -> [type |-> type, error |-> "X"]
    [] OTHER -> [type |-> type]

Unhandled(type) ==
  /\ type \notin cfg.actions
  /\ state' = Reduce(cfg, state, ForeignSignal(type))
  /\ obj' = ReturnedObject(cfg, obj, ForeignSignal(type))
  /\ last' = Quiet("unhandled", ForeignSignal(type), NoCall, 0)
  /\ UNCHANGED <<cfg, nreq, loadLive, stale, pending, resetHit, held>>

\* a signal of the application's own, handled next to the generated handlers;
\* every dispatch is reduced and returns a new object, also when the page
\* number it carries is the one the state holds
SetPageNumber(page) ==
  /\ cfg.variant \in Paged
  /\ state' = Spread(state, [currentPageNumber |-> page])
  /\ obj' = [ref |-> "fresh", same |-> FALSE]
  /\ last' = Quiet("setPageNumber", [type |-> "setPageNumber", page |-> page],
                   NoCall, 0)
  /\ UNCHANGED <<cfg, nreq, loadLive, stale, pending, resetHit, held>>

(***************************************************************************)
(* Outcomes: a service settles; the effect emits, the store reduces        *)
(***************************************************************************)
Emit(k, sig, req, settled, log) ==
  /\ state' = Reduce(cfg, state, sig)
  /\ obj' = ReturnedObject(cfg, obj, sig)
  /\ resetHit' = [resetHit EXCEPT ![k] = FALSE]
  /\ held' = HeldAfter(held, Slice(cfg, state).data, Slice(cfg, state').data,
                       {}, {k})
  /\ last' = Step(sig.type, sig, NoCall, req, resetHit[k], settled, log, Null)
  /\ UNCHANGED <<cfg, nreq, stale>>

\* the catchError callback threw: nothing is emitted, the error leaves the
\* pipeline and createEffect's error handler subscribes to it again
Uncaught(k, req, e) ==
  /\ resetHit' = [resetHit EXCEPT ![k] = FALSE]
  /\ held' = HeldAfter(held, Slice(cfg, state).data, Slice(cfg, state).data,
                       {}, {k})
  /\ last' = Step("uncaught", [type |-> "none"], NoCall, req, resetHit[k], e,
                  Undefined, Null)
  /\ obj' = [obj EXCEPT !.same = TRUE]
  /\ UNCHANGED <<cfg, state, nreq, stale>>

Resolved(k, body, req, value) ==
  Emit(k, SuccessSignal(cfg, k, body), req, value, SuccessLog(cfg, k, body))

Rejected(k, e, req) ==
  IF CatchThrows(cfg, e) THEN Uncaught(k, req, e)
  ELSE Emit(k, FailureSignal(cfg, k, e), req, e, Undefined)

LoadResolve(data) ==
  /\ loadLive # 0
  /\ loadLive' = 0
  /\ Resolved("load", [data |-> data], loadLive, data)
  /\ UNCHANGED pending

LoadReject(e) ==
  /\ loadLive # 0
  /\ loadLive' = 0
  /\ Rejected("load", e, loadLive)
  /\ UNCHANGED pending

\* a request the switchMap unsubscribed from settles: nothing is emitted
StaleSettle(id) ==
  /\ id \in stale
  /\ stale' = stale \ {id}
  /\ last' = Quiet("stale", [type |-> "none"], NoCall, id)
  /\ obj' = [obj EXCEPT !.same = TRUE]
  /\ UNCHANGED <<cfg, state, nreq, loadLive, pending, resetHit, held>>

ExhaustResolve(k, body, value) ==
  /\ pending[k] # NoReq
  /\ pending' = innerCompletes(pending, k)
  /\ Resolved(k, body, 0, value)
  /\ UNCHANGED loadLive

ExhaustReject(k, e) ==
  /\ k \in Mutating
  /\ pending[k] # NoReq
  /\ pending' = innerCompletes(pending, k)
  /\ Rejected(k, e, 0)
  /\ UNCHANGED loadLive

AddResolve(item) == ExhaustResolve("add", [item |-> item], item)

UpdateResolve(item) == ExhaustResolve("update", [item |-> item], item)

\* deleteSuccess carries the id of the intent, the service's value is dropped
DeleteResolve(response) ==
  ExhaustResolve("delete", [id |-> deleteSuccessId(pending["delete"], response)],
                 NoValue)

Next ==
  \/ \E p \in Params, f \in ForceReloadValues : Load(p, f)
  \/ \E q \in Payloads : Add(q)
  \/ \E i \in Ids, q \in Payloads : Update(i, q)
  \/ \E i \in Ids : Delete(i)
  \/ Reset
  \/ \E page \in Pages : SetPageNumber(page)
  \/ \E type \in SignalTypes \cup {"unrelated"} : Unhandled(type)
  \/ \E d \in LoadValues : LoadResolve(d)
  \/ \E e \in Rejections : LoadReject(e)
  \/ \E id \in stale : StaleSettle(id)
  \/ \E item \in AddResults : AddResolve(item)
  \/ \E item \in UpdateResults : UpdateResolve(item)
  \/ \E response \in DeleteResponses : DeleteResolve(response)
  \/ \E k \in Mutating, e \in Rejections : ExhaustReject(k, e)

Spec == Init /\ [][Next]_vars

(***************************************************************************)
(* The action-group factory on its own: every GenericActionConfig          *)
(***************************************************************************)
ActionsInit ==
  /\ cfg \in GenericActionConfigs
  /\ state = EmptyObject
  /\ nreq = 0
  /\ loadLive = 0
  /\ stale = {}
  /\ pending = [k \in Mutating |-> NoReq]
  /\ resetHit = [k \in Kinds |-> FALSE]
  /\ held = [k \in Kinds |-> NoValue]
  /\ obj = [ref |-> "initialState", same |-> TRUE]
  /\ last = Quiet("init", [type |-> "init"], NoCall, 0)

\* the factory is called; state holds the group it returned
CreateGenericActions ==
  /\ last.type = "init"
  /\ state' = createGenericActions(cfg)
  /\ obj' = [ref |-> "fresh", same |-> FALSE]
  /\ last' = Quiet("createGenericActions", [type |-> "none"], NoCall, 0)
  /\ UNCHANGED <<cfg, nreq, loadLive, stale, pending, resetHit, held>>

ActionsNext == CreateGenericActions

ActionsSpec == ActionsInit /\ [][ActionsNext]_vars

(***************************************************************************)
(* Properties                                                              *)
(***************************************************************************)
slice == Slice(cfg, state)
Busy(k) == slice[BusyFlag(cfg, k)]
LoadOutcomes == {"loadSuccess", "loadFailure"}
Outcomes == {k \o "Success" : k \in Kinds} \cup {k \o "Failure" : k \in Kinds}
ForceOf(sig) == IF "forceReload" \in DOMAIN sig THEN sig.forceReload ELSE "absent"
A0 == Item("a", 0)
B0 == Item("b", 0)

\* C1: reducing an intent signal of a kind in the action group sets that
\* kind's busy flag true and error to null and leaves data as it was.
C1_IntentSetsBusy ==
  [][\A k \in Kinds :
       last'.type = k =>
         /\ Busy(k)' = TRUE
         /\ slice'.error = Null
         /\ slice'.data = slice.data]_vars

\* an update intent reduced on a loaded collection: busy, error null, data kept
C1_Witness ==
  /\ last.type = "update"
  /\ Busy("update")
  /\ slice.error = Null
  /\ slice.data = Arr(<<A0, B0>>)

\* C2: stateKey reducers with the documented appending onAddSuccess: add then
\* addSuccess(I) leaves data = prior collection followed by I and the add busy
\* flag false.
C2_AddSuccessAppendsAndClearsBusy ==
  [][(/\ cfg.variant \in Keyed
      /\ cfg.callbacks
      /\ last.type = "add"
      /\ last'.type = "addSuccess") =>
       /\ slice'.data = Arr(IF slice.data = NullData THEN <<last'.sig.item>>
                              ELSE Append(slice.data.items, last'.sig.item))
       /\ Busy("add")' = FALSE]_vars

\* C3: with the filtering onDeleteSuccess, delete(id) then deleteSuccess(id)
\* removes the elements of that id, keeps the others in order, and leaves the
\* delete busy flag false.
C3_DeleteSuccessFiltersAndClearsBusy ==
  [][(/\ cfg.callbacks
      /\ last.type = "delete"
      /\ last'.type = "deleteSuccess") =>
       /\ slice'.data =
            IF slice.data = NullData THEN NullData
            ELSE Arr(SelectSeq(slice.data.items,
                               LAMBDA p : p.id # last'.sig.id))
       /\ Busy("delete")' = FALSE]_vars

\* C4: with the replacing onUpdateSuccess, update(id, Q) then updateSuccess(J)
\* with J.id = id leaves data with the element of that id replaced by J, the
\* other elements unchanged and the order preserved.
C4_UpdateSuccessReplacesInPlace ==
  [][(/\ cfg.callbacks
      /\ last'.type = "updateSuccess"
      /\ last'.sig.item.id = pending["update"]) =>
       LET J == last'.sig.item
           d == slice.data
           e == slice'.data
       IN IF d = NullData THEN e = NullData
          ELSE /\ e # NullData
               /\ Len(e.items) = Len(d.items)
               /\ \A i \in 1..Len(d.items) :
                    e.items[i] = IF d.items[i].id = pending["update"]
                                   THEN J ELSE d.items[i]]_vars

\* the second of two elements was replaced, the first kept its place
C4_Witness ==
  /\ cfg.callbacks
  /\ last.type = "updateSuccess"
  /\ last.sig.item = Item("b", 1)
  /\ slice.data = Arr(<<A0, Item("b", 1)>>)

\* C5: a reset returns the sub-slice to the default-constructed state the
\* resource started with, a caller-supplied default data value included.
C5_ResetRestoresInitialSlice ==
  last.type = "reset" => slice = Slice(cfg, cfg.initialState)

\* C6: the outcome of a request that was in flight when a reset was reduced
\* does not change the data of the sub-slice.
C6_LateOutcomeKeepsData ==
  [][(last'.type \in Outcomes /\ last'.late) => slice'.data = slice.data]_vars

\* C7: load effect with a state projection: a load intent arriving when data
\* is not null and forceReload is false or absent calls no service and leaves
\* no load request that could emit an outcome.
C7_LoadSkippedWhenDataPresent ==
  [][(/\ cfg.selector # "none"
      /\ last'.type = "load"
      /\ slice.data # NullData
      /\ ForceOf(last'.sig) \in {"absent", "false"}) =>
       /\ last'.call = NoCall
       /\ nreq' = nreq
       /\ loadLive' = 0]_vars

\* a load intent with forceReload: false on loaded data, answered with EMPTY
C7_Witness ==
  /\ cfg.selector = "slice"
  /\ last.type = "load"
  /\ ForceOf(last.sig) = "false"
  /\ slice.data = Arr(<<A0, B0>>)
  /\ last.call = NoCall
  /\ loadLive = 0

\* C8: load effect with a state projection: a load intent with forceReload
\* true calls loadService with the intent's params whatever data is.
C8_ForceReloadCallsService ==
  [][(/\ cfg.selector # "none"
      /\ last'.type = "load"
      /\ ForceOf(last'.sig) = "true") =>
       /\ last'.call = [kind |-> "load", args |-> <<last'.sig.params>>]
       /\ nreq' = nreq + 1
       /\ loadLive' = nreq']_vars

\* forceReload: true on loaded data: the service is called with the params
C8_Witness ==
  /\ cfg.selector = "slice"
  /\ last.type = "load"
  /\ ForceOf(last.sig) = "true"
  /\ slice.data = Arr(<<A0, B0>>)
  /\ last.call = [kind |-> "load", args |-> <<"p2">>]
  /\ loadLive = nreq

\* C9: every operation kind cycles idle -> busy -> outcome: a busy flag is
\* true only while a request whose outcome will clear it is in flight, so no
\* state has a busy flag that is true with nothing in flight (where it would
\* stay true for ever).  Stated for a selector that projects the resource.
C9_BusyOnlyWhileInFlight ==
  cfg.selector # "missing" =>
    \A k \in Kinds :
      (k \in cfg.actions /\ Busy(k)) =>
        IF cfg.variant \in SplitFlags THEN InFlight(k)
        ELSE \E j \in Kinds : InFlight(j)

\* C10: a load intent arriving while a load request is in flight supersedes
\* it; a superseded request never emits, also when it settles later, and a
\* load outcome always comes from the latest load request.
C10_SupersededLoadNeverEmits ==
  [][/\ (last'.type = "load" /\ loadLive # 0) =>
          (loadLive' # loadLive /\ loadLive \in stale')
     /\ last'.type \in LoadOutcomes =>
          /\ last'.req = loadLive
          /\ last'.req \notin stale
          /\ \A id \in stale : id < last'.req
     /\ last'.type = "stale" => state' = state]_vars

\* the first request settles after the second one's loadSuccess was reduced:
\* the state shows the second request's result
C10_Witness ==
  /\ last.type = "stale"
  /\ last.req = 1
  /\ nreq = 2
  /\ loadLive = 0
  /\ slice.data = Arr(<<A0, B0>>)
  /\ ~Busy("load")

\* C11: an add, update or delete intent arriving while a request of its kind
\* is in flight is dropped: no service call, nothing queued, the request in
\* flight stays; each request yields one outcome, which ends it, and nothing
\* starts in its place.
C11_BusyIntentDropped ==
  [][\A k \in Mutating :
       /\ (last'.type = k /\ pending[k] # NoReq) =>
            /\ last'.call = NoCall
            /\ nreq' = nreq
            /\ pending' = pending
       /\ last'.type \in {k \o "Success", k \o "Failure"} =>
            /\ pending[k] # NoReq
            /\ pending' = [pending EXCEPT ![k] = NoReq]
            /\ nreq' = nreq
       /\ last'.type = "deleteSuccess" => last'.sig.id = pending["delete"]]_vars

\* a second add intent, with another payload, found the first one pending
C11_Witness ==
  /\ last.type = "add"
  /\ last.sig.payload = "q2"
  /\ last.call = NoCall
  /\ pending["add"] = "q1"
  /\ nreq = 1

\* C12 as stated: whatever the effect was configured with and whatever was
\* reduced in between, a rejection with message X leaves error = X, the
\* kind's busy flag false and data equal to the data the sub-slice held
\* before the intent was dispatched.
C12_RejectionSetsErrorAnyConfig ==
  [][\A k \in Kinds :
       (last'.type = Failure(k) /\ MessageOf(last'.settled) = "X") =>
         /\ slice'.error = "X"
         /\ Busy(k)' = FALSE
         /\ slice'.data = held[k]]_vars

\* C12, amended: when the effect is given no error message option, a
\* rejection with message X leaves error = X and the kind's busy flag false;
\* neither the intent signal nor the failure signal changes data, so that
\* data after the failure equals the data the sub-slice held before the
\* intent was dispatched whenever no signal reduced in between (the outcome
\* of another request, a reset) changed data.
C12_RejectionSetsError ==
  [][\A k \in Kinds :
       /\ last'.type = k => slice'.data = slice.data
       /\ (/\ last'.type = Failure(k)
           /\ MessageOf(last'.settled) = "X"
           /\ cfg.errorMessage = NoMessage) =>
            /\ slice'.error = "X"
            /\ Busy(k)' = FALSE
            /\ slice'.data = slice.data
            /\ held[k] # Overwritten => slice'.data = held[k]]_vars

\* an update rejected with X on a loaded collection
C12_Witness ==
  /\ last.type = "updateFailure"
  /\ last.settled = [message |-> "X"]
  /\ cfg.errorMessage = NoMessage
  /\ slice.error = "X"
  /\ ~Busy("update")
  /\ slice.data = Arr(<<A0, B0>>)

\* C13: when the load request that is live (not superseded) resolves with V
\* and loadSuccess is reduced, the sub-slice has data = V, isLoading false
\* and error null.
C13_LoadRoundTrip ==
  [][last'.type = "loadSuccess" =>
       /\ last'.req = loadLive
       /\ slice'.data = last'.settled
       /\ slice'.isLoading = FALSE
       /\ slice'.error = Null]_vars

\* the second load, made after a failed first one, resolved with two elements
C13_Witness ==
  /\ last.type = "loadSuccess"
  /\ last.req = 2
  /\ last.settled = Arr(<<A0, B0>>)
  /\ slice.data = Arr(<<A0, B0>>)
  /\ ~slice.isLoading
  /\ slice.error = Null
  /\ stale = {}

\* the failure-message option the effects were given, whichever name it has
ErrorOption ==
  IF cfg.errorMessage # NoMessage THEN cfg.errorMessage ELSE cfg.failureMessage

\* C14: the error a failure signal carries is the configured static message
\* if there is one, else the configured function applied to the error, else
\* the error's own message, else the built-in default text.
C14_FailureMessageFallbackOrder ==
  [][\A k \in Kinds :
       last'.type = Failure(k) =>
         last'.sig.error =
           CASE ErrorOption.kind = "static" -> ErrorOption.text
             [] ErrorOption.kind = "function" ->
                  MessageFn(ShowError(last'.settled))
             [] OTHER -> OrElse(MessageOf(last'.settled), FailedText(k))]_vars

\* C15: a pipeline survives failures: every rejection of the request it is
\* subscribed to becomes a failure signal, none leaves the pipeline as an
\* error, and the next intent of the same kind after a failure calls the
\* service again.
C15_FailuresBecomeSignals ==
  [][/\ last'.type # "uncaught"
     /\ \A k \in Kinds :
          (last.type = Failure(k) /\ last'.type = k /\ cfg.selector = "none") =>
            last'.call.kind = k]_vars

\* the signals of the resource's action group
GroupSignals == Kinds \cup Outcomes \cup {"reset"}

\* C16: in a composite state, with no merge callback configured, reducing a
\* signal of the resource's action group changes only the sub-slice under
\* stateKey; every other key of the state keeps its value.
C16_OnlyOwnSubSliceChanges ==
  [][(/\ cfg.variant \in Keyed
      /\ ~cfg.callbacks
      /\ last'.type \in GroupSignals) =>
       \A key \in DOMAIN state \ {stateKey} : state'[key] = state[key]]_vars

\* C17: in every state reached by reducing an intent of any kind, or a reset,
\* error is null, whichever kind's failure set it before.
C17_IntentOrResetClearsError ==
  [][(last'.type \in Kinds \cup {"reset"}) =>
       /\ last'.was = slice.error
       /\ slice'.error = Null]_vars

\* an add intent found the error a failed load had left, and cleared it
C17_Witness ==
  /\ last.type = "add"
  /\ last.was = FailedText("load")
  /\ slice.error = Null

\* C18: with no merge callback configured, reducing addSuccess, updateSuccess
\* or deleteSuccess sets the kind's busy flag false and error null and leaves
\* data unchanged; of the group's signals only loadSuccess (and reset)
\* replaces data.
C18_MutatingSuccessKeepsData ==
  [][~cfg.callbacks =>
       /\ \A k \in Mutating :
            last'.type = Success(k) =>
              /\ Busy(k)' = FALSE
              /\ slice'.error = Null
              /\ slice'.data = slice.data
       /\ (last'.type \in GroupSignals \ {"loadSuccess", "reset"}) =>
            slice'.data = slice.data]_vars

\* addSuccess reduced on an empty collection with no callback: nothing appended
C18_Witness ==
  /\ ~cfg.callbacks
  /\ last.type = "addSuccess"
  /\ last.settled = A0
  /\ slice.data = Arr(<<>>)
  /\ slice.error = Null
  /\ ~Busy("add")

\* C19: a success signal carries the operation's result and, when a success
\* message is configured, the resolved message: the static string, or the
\* function applied to the result.
C19_SuccessSignalCarriesMessage ==
  [][\A k \in Kinds :
       last'.type = Success(k) =>
         /\ k = "load" => last'.sig.data = last'.settled
         /\ k \in {"add", "update"} => last'.sig.item = last'.settled
         /\ k = "delete" => last'.sig.id = pending["delete"]
         /\ cfg.successMessage # NoMessage =>
              /\ "message" \in DOMAIN last'.sig
              /\ last'.sig.message =
                   IF cfg.successMessage.kind = "static"
                     THEN cfg.successMessage.text
                     ELSE MessageFn(ShowResult(k, last'.sig))]_vars

\* C20: each pipeline has at most one live request per kind: a load call
\* makes the new request the live one and unsubscribes the previous one, an
\* add / update / delete call is made only when none of its kind is live,
\* and an outcome of a kind comes from, and ends, that kind's live request.
C20_OneLiveRequestPerKind ==
  [][/\ last'.call.kind = "load" =>
          /\ loadLive' = nreq'
          /\ loadLive # 0 => loadLive \in stale'
     /\ loadLive' \notin stale'
     /\ \A k \in Mutating :
          last'.call.kind = k => (pending[k] = NoReq /\ pending'[k] # NoReq)
     /\ \A k \in Kinds :
          last'.type \in {Success(k), Failure(k)} =>
            (InFlight(k) /\ ~InFlight(k)')]_vars

\* a second load call was made while the first was live: the second is the
\* live one, the first is unsubscribed
C20_Witness ==
  /\ last.type = "load"
  /\ last.call.kind = "load"
  /\ loadLive = 2
  /\ stale = {1}

\* C21: a signal whose kind is not in the reducer's action group, or a signal
\* unrelated to the group, leaves the whole state unchanged.
C21_UnhandledSignalKeepsState ==
  [][last'.type = "unhandled" => state' = state]_vars

\* addSuccess reached a reducer built from a load-only group holding loaded data
C21_Witness ==
  /\ cfg.actions \cap Mutating = {}
  /\ last.type = "unhandled"
  /\ last.sig.type = "addSuccess"
  /\ slice.data = Arr(<<A0, B0>>)

Range(f) == {f[x] : x \in DOMAIN f}
FlagOf(config, k) ==
  CASE k = "load" -> config.enableLoad
    [] k = "add" -> config.enableAdd
    [] k = "update" -> config.enableUpdate
    [] k = "delete" -> config.enableDelete

\* C22: the group createGenericActions returns holds X, XSuccess and XFailure
\* exactly for the enabled kinds X (load enabled unless switched off, the
\* others disabled unless switched on) and reset; its type strings are
\* distinct, and distinct from those of every group of another feature name.
C22_GroupHoldsEnabledKinds ==
  last.type = "createGenericActions" =>
    /\ \A k \in Kinds :
         IF FlagOf(cfg, k) = "true" \/ (k = "load" /\ FlagOf(cfg, k) = "absent")
           THEN KindActions(k) \subseteq DOMAIN state
           ELSE KindActions(k) \cap DOMAIN state = {}
    /\ "reset" \in DOMAIN state
    /\ DOMAIN state \subseteq SignalTypes
    /\ \A x, y \in DOMAIN state : state[x] = state[y] => x = y
    /\ \A other \in GenericActionConfigs :
         other.feature # cfg.feature =>
           Range(state) \cap Range(createGenericActions(other)) = {}

\* load switched off and add switched on: the group is add's three and reset
C22_Witness ==
  /\ last.type = "createGenericActions"
  /\ cfg.enableLoad = "false"
  /\ cfg.enableAdd = "true"
  /\ cfg.enableUpdate = "absent"
  /\ cfg.enableDelete = "false"
  /\ DOMAIN state = {"add", "addSuccess", "addFailure", "reset"}
  /\ state["addSuccess"] = "[Product] Add Success"

\* the store's global state around the feature state, and the same with
\* every other part replaced: another feature, the other resource, the page
Global(s) == [app |-> s, router |-> [url |-> "/"]]
Elsewhere(s) ==
  [app |-> IF cfg.variant \in Keyed
             THEN Spread(s, [users |-> initialGenericState,
                             currentPageNumber |-> 0])
             ELSE s,
   router |-> [url |-> "/products"]]
WithSelectors == {"state4", "enhancedGeneric"}

\* C23: selectData, selectIsLoading and selectError return the data, isLoading
\* and error fields of the resource's sub-slice, and return the same when
\* every other part of the global state is different.
C23_SelectorsProjectSubSlice ==
  cfg.variant \in WithSelectors =>
    \A g \in {Global(state), Elsewhere(state)} :
      /\ selectData(cfg, g) =
           IF cfg.variant = "state4" THEN state[stateKey].data ELSE state.data
      /\ selectIsLoading(cfg, g) =
           IF cfg.variant = "state4" THEN state[stateKey].isLoading
                                     ELSE state.isLoading
      /\ selectError(cfg, g) =
           IF cfg.variant = "state4" THEN state[stateKey].error ELSE state.error

\* the composite state after a failed add on loaded products: the selectors
\* show the products, not busy, and the error
C23_Witness ==
  /\ cfg.variant = "state4"
  /\ last.type = "addFailure"
  /\ selectData(cfg, Global(state)) = Arr(<<A0, B0>>)
  /\ selectIsLoading(cfg, Global(state)) = FALSE
  /\ selectError(cfg, Global(state)) = "X"
  /\ state.users.data = Arr(<<>>)

\* C24: a resource state is created with every busy flag false, error null,
\* and data null unless the caller supplies a default, which is then data.
C24_CreatedIdle ==
  last.type = "init" =>
    /\ slice.data = cfg.defaultData
    /\ slice.error = Null
    /\ \A f \in DOMAIN slice \ {"data", "error"} : slice[f] = FALSE

\* created by createDefaultState([]): four flags, all false, data the default
C24_Witness ==
  /\ last.type = "init"
  /\ cfg.variant = "improved"
  /\ cfg.defaultData = Arr(<<>>)
  /\ slice = [data |-> Arr(<<>>), error |-> Null, isLoading |-> FALSE,
              isAdding |-> FALSE, isUpdating |-> FALSE, isDeleting |-> FALSE]

\* C25: a transition that changes the state returns another object than the
\* one it was given: the prior state object is not written, and a comparison
\* of the old and the new state by reference sees the change.
C25_ChangeReturnsNewObject ==
  [][state' # state => ~obj'.same]_vars

\* updateFailure reduced by the stateKey reducer: a changed state, a new object
C25_Witness ==
  /\ cfg.variant = "state4"
  /\ last.type = "updateFailure"
  /\ slice.error = "X"
  /\ obj = [ref |-> "fresh", same |-> FALSE]

\* C26: load effect with a state projection: a load intent that is skipped
\* leaves a load request already in flight alone: it stays the live request
\* and is not unsubscribed, so its outcome is still emitted.
C26_SkippedLoadKeepsRequestInFlight ==
  [][(/\ cfg.selector = "slice"
      /\ last'.type = "load"
      /\ slice.data # NullData
      /\ ForceOf(last'.sig) # "true"
      /\ loadLive # 0) =>
       /\ loadLive' = loadLive
       /\ loadLive \notin stale']_vars

\* C27: load effect with a state projection: a load intent is skipped only
\* when data exists: when the projected sub-slice has data null, or the
\* projection yields no sub-slice, loadService is called also without
\* forceReload.
C27_LoadCalledWhenNoData ==
  [][(/\ cfg.selector # "none"
      /\ last'.type = "load"
      /\ SelectedData(cfg, state') \in {NullData, UndefinedData}) =>
       last'.call = [kind |-> "load", args |-> <<last'.sig.params>>]]_vars

\* C28: the load effect built without a store or state projection calls
\* loadService with the intent's params on every load intent, whatever data
\* and forceReload are.
C28_NoStoreNeverSkips ==
  [][(cfg.variant = "enhancedHandlers" /\ cfg.selector = "none"
        /\ last'.type = "load") =>
       /\ last'.call = [kind |-> "load", args |-> <<last'.sig.params>>]
       /\ nreq' = nreq + 1
       /\ loadLive' = nreq']_vars

\* loaded data, forceReload: false, no store: the service is called all the same
C28_Witness ==
  /\ cfg.variant = "enhancedHandlers"
  /\ cfg.selector = "none"
  /\ last.type = "load"
  /\ ForceOf(last.sig) = "false"
  /\ slice.data = Arr(<<A0, B0>>)
  /\ last.call = [kind |-> "load", args |-> <<"p2">>]
  /\ loadLive = 2

\* no request now in flight has seen a reset reduced since it started
NoResetSinceIssued == \A k \in Kinds : ~resetHit[k]

\* C29: in the variants with the single isLoading flag, as long as no reset
\* intervenes, isLoading is true in every state in which a request of any
\* kind is in flight.
C29_SharedFlagCoversEveryRequest ==
  (/\ cfg.variant \notin SplitFlags
   /\ NoResetSinceIssued
   /\ \E k \in Kinds : InFlight(k)) => slice.isLoading

\* C30: in the split-flag variants, with no merge callback and as long as no
\* reset intervenes, each busy flag is true exactly when a request of its own
\* kind is in flight, and reducing a signal of one kind leaves the flags of
\* the other kinds as they were.
C30_SplitFlagsTrackOwnKind ==
  [][(cfg.variant \in SplitFlags /\ ~cfg.callbacks
        /\ cfg.selector # "missing") =>
       /\ NoResetSinceIssued' =>
            \A k \in Kinds \cap cfg.actions : Busy(k)' <=> InFlight(k)'
       /\ \A k \in Kinds :
            last'.type \in KindActions(k) =>
              \A j \in Kinds \ {k} : Busy(j)' = Busy(j)]_vars

\* C31: once a failure signal has set error to a message, the message stays
\* until an intent signal or a reset is reduced: no success outcome, of a
\* request of another kind that was in flight at the same time in particular,
\* and no other signal clears or replaces it (a further failure signal sets
\* error anew and is not judged here).  Stated for the handlers of
\* ngrx_helper_improved.ts.
C31_ErrorKeptUntilIntentOrReset ==
  [][(/\ cfg.variant = "improved"
      /\ slice.error # Null
      /\ last'.type \notin Kinds \cup {"reset"}
      /\ last'.type \notin {Failure(k) : k \in Kinds}) =>
       slice'.error = slice.error]_vars

\* C32: the pipelines of different kinds are independent.  A load intent
\* calls loadService and becomes the live load request whatever add, update
\* or delete requests are in flight, and leaves those in flight; an add,
\* update or delete intent whose own kind is idle calls its service whatever
\* load request is in flight or superseded and whatever other mutating
\* requests are in flight, and leaves those alone; and an outcome of one
\* kind leaves the requests of the other kinds in flight.
C32_PipelinesIndependent ==
  [][/\ (last'.type = "load" /\ cfg.selector = "none") =>
          /\ last'.call = [kind |-> "load", args |-> <<last'.sig.params>>]
          /\ nreq' = nreq + 1
          /\ loadLive' = nreq'
          /\ pending' = pending
     /\ \A k \in Mutating :
          (last'.type = k /\ pending[k] = NoReq) =>
            /\ last'.call.kind = k
            /\ nreq' = nreq + 1
            /\ pending'[k] # NoReq
            /\ \A j \in Mutating \ {k} : pending'[j] = pending[j]
            /\ loadLive' = loadLive
            /\ stale' = stale
     /\ \A k \in Kinds :
          last'.type \in {Success(k), Failure(k)} =>
            /\ \A j \in Mutating \ {k} : pending'[j] = pending[j]
            /\ k # "load" => (loadLive' = loadLive /\ stale' = stale)]_vars

\* a delete intent reaches deleteService while a load request is live
C32_Witness ==
  /\ cfg.variant = "state4"
  /\ last.type = "delete"
  /\ last.call = [kind |-> "delete", args |-> <<"b">>]
  /\ pending["delete"] = "b"
  /\ loadLive # 0

\* C33: dropping is not permanent.  When the add (update, delete) request in
\* flight settles, with success or with failure, its exhaustMap is idle
\* again, and an intent of that kind reduced when the exhaustMap is idle
\* calls the service with its own payload and becomes the request in flight.
C33_IntentAfterSettleCallsService ==
  [][\A k \in Mutating :
       /\ last'.type \in {Success(k), Failure(k)} => pending'[k] = NoReq
       /\ (last'.type = k /\ pending[k] = NoReq) =>
            /\ last'.call.kind = k
            /\ last'.call.args =
                 CASE k = "add" -> <<last'.sig.payload>>
                   [] k = "update" -> <<last'.sig.id, last'.sig.payload>>
                   [] k = "delete" -> <<last'.sig.id>>
            /\ pending'[k] = IF k = "add" THEN last'.sig.payload
                                          ELSE last'.sig.id]_vars

\* the first add request has succeeded and its item was appended; the add
\* intent reduced after it is the second service call
C33_Witness ==
  /\ cfg.callbacks
  /\ slice.data = Arr(<<A0>>)
  /\ last.type = "add"
  /\ last.call = [kind |-> "add", args |-> <<"q2">>]
  /\ nreq = 2
  /\ pending = [k \in Mutating |-> IF k = "add" THEN "q2" ELSE NoReq]
  /\ loadLive = 0
  /\ stale = {}

\* the live request of kind k settles in this step (a load request that is
\* unsubscribed by a later load intent is superseded, not settled)
Settles(k) ==
  IF k = "load" THEN loadLive # 0 /\ loadLive' = 0 /\ last'.type # "load"
                ELSE pending[k] # NoReq /\ pending'[k] = NoReq

\* C34: a service call that is neither superseded nor dropped and whose
\* service settles once yields exactly one outcome signal: the step in
\* which it settles reduces the success signal of its kind if the service
\* resolved and the failure signal of its kind if it rejected.  Stated for
\* the effects of ngrx_generic_state_4.ts and ngrx_helper_improved.ts.
C34_SettledCallYieldsOneOutcome ==
  [][\A k \in Kinds :
       (cfg.variant \in {"state4", "improved"} /\ Settles(k)) =>
         last'.sig.type = IF last'.settled \in Rejections THEN Failure(k)
                                                           ELSE Success(k)]_vars

\* what an intent signal carries for its service, in the order of the call
PayloadOf(sig) ==
  CASE sig.type = "load" -> <<sig.params>>
    [] sig.type = "add" -> <<sig.payload>>
    [] sig.type = "update" -> <<sig.id, sig.payload>>
    [] sig.type = "delete" -> <<sig.id>>

\* C35: an effect calls the service of the intent's kind with the intent's
\* payload unchanged (load: params; add: payload; update: id, payload;
\* delete: id).  The delete request remembers the id of the intent that
\* started it, a delete intent dropped while it is in flight does not change
\* that id, and deleteSuccess carries exactly that id, whatever the service
\* resolved with.
C35_PayloadPassedAndDeleteIdKept ==
  [][/\ last'.call # NoCall =>
          /\ last'.call.kind = last'.sig.type
          /\ last'.call.args = PayloadOf(last'.sig)
     /\ last'.type = "delete" =>
          pending'["delete"] = IF pending["delete"] = NoReq
                                 THEN last'.sig.id ELSE pending["delete"]
     /\ last'.type = "deleteSuccess" =>
          last'.sig.id = pending["delete"]]_vars

\* delete("b") on the loaded collection has succeeded: deleteSuccess carries
\* "b" and the callback has removed that element
C35_Witness ==
  /\ cfg.callbacks
  /\ last.type = "deleteSuccess"
  /\ last.sig.id = "b"
  /\ slice.data = Arr(<<A0>>)
  /\ pending["delete"] = NoReq

====
